---- MODULE Spec2Model ----
(***************************************************************************)
(* Model of the HitEvents event-subscription client (events.ts): the       *)
(* connection / reconnection / dispatch state machine, together with the   *)
(* host objects it drives (WebSocket and EventSource instances, timers).   *)
(*                                                                         *)
(* Strings (patterns, event types, channels) are sequences of one-         *)
(* character strings, so that startsWith / endsWith / slice / split are    *)
(* computed as the code computes them.                                     *)
(*                                                                         *)
(* A handler of the client (a public method, a socket callback, a timer    *)
(* callback) runs to completion: each is one action.  The body of a        *)
(* handler is written as a function from a "run" record (the client's      *)
(* fields, the host objects and the effects observed so far in this        *)
(* handler) to a run record, so that nested calls (setStatus, connect,     *)
(* scheduleReconnect, close, ...) compose as they do in the source.        *)
(*                                                                         *)
(* Host objects are identified by their role, not by an address: the       *)
(* socket the client references (ws / eventSource hold its readyState),    *)
(* and the sockets it no longer references but whose events are still due  *)
(* ("orphans", a bag of readyStates).  Timers likewise: the one stored in  *)
(* reconnectTimeout / pingInterval, and a count of the ones that are       *)
(* pending but no longer stored anywhere.                                  *)
(***************************************************************************)
EXTENDS Integers, Sequences, FiniteSets, TLC

(* ------------------------------ bounds --------------------------------- *)
\* sockets the client no longer references whose events are still due
MaxOrphans == 1
\* pending reconnect timeouts that reconnectTimeout no longer holds
MaxOrphanTimers == 1
\* running keep-alive intervals that pingInterval no longer holds
MaxOrphanIntervals == 1
\* cap on the reconnect attempt counter
MaxAttempts == 2
\* length of the strings drawn for matchesPattern
MaxLen == 4
\* the configured maximum of a client that only ever fails to connect
MaxBackoff == 8

(* ----------------------------- constants ------------------------------- *)
\* Number.POSITIVE_INFINITY: larger than every value the counter can take
Infinity == 1000000
\* options.reconnectDelayMs || 3000
DefaultDelay == 3000
\* the cap of Math.min(..., 30000)
MaxDelay == 30000

Handlers == {"h1", "h2"}
Star == <<"*">>
Patterns == {Star, <<"a", ".", "*">>}
\* values of a frame's event_type / channel field; Absent is a missing field
Absent == <<"absent">>
EventTypes == {<<"a", ".", "b">>, <<"b">>}
Channels == {<<"h", ":", "b">>}
ControlTypes == {"connected", "subscribed", "unsubscribed", "pong"}

\* alphabet of the strings drawn for matchesPattern
Chars == {"a", ".", "*"}

(* ------------------------------ strings -------------------------------- *)
StartsWith(s, prefix) ==
    /\ Len(prefix) <= Len(s)
    /\ SubSeq(s, 1, Len(prefix)) = prefix

EndsWith(s, suffix) ==
    /\ Len(suffix) <= Len(s)
    /\ SubSeq(s, Len(s) - Len(suffix) + 1, Len(s)) = suffix

\* s.slice(0, -n)
SliceOff(s, n) == SubSeq(s, 1, Len(s) - n)

\* s.split(':').pop(): the segment after the last ':'
RECURSIVE LastSegment(_)
LastSegment(s) ==
    IF s = <<>> THEN <<>>
    ELSE IF s[Len(s)] = ":" THEN <<>>
    ELSE Append(LastSegment(SubSeq(s, 1, Len(s) - 1)), s[Len(s)])

(* --------------------------- matchesPattern ---------------------------- *)
\* the glob rule without the separating dot
MatchesPatternNoDot(eventType, pattern) ==
    IF pattern = Star THEN TRUE
    ELSE IF pattern = eventType THEN TRUE
    ELSE IF EndsWith(pattern, <<".", "*">>)
         THEN StartsWith(eventType, SliceOff(pattern, 2))
    ELSE IF StartsWith(eventType, pattern \o <<".">>) THEN TRUE
    ELSE FALSE

MatchesPattern(eventType, pattern) ==
    IF pattern = Star THEN TRUE
    ELSE IF pattern = eventType THEN TRUE
    ELSE IF EndsWith(pattern, <<".", "*">>)
         THEN StartsWith(eventType, SliceOff(pattern, 2) \o <<".">>)
    ELSE IF StartsWith(eventType, pattern \o <<".">>) THEN TRUE
    ELSE FALSE

VARIABLES
    \* fields of HitEvents
    status, subscriptions, pendingPatterns, reconnectAttempts,
    reconnectTimeout, pingInterval, ws, eventSource,
    useSSE, maxReconnectAttempts, reconnectDelay,
    \* the options the constructor was called with
    options,
    \* host objects the client no longer references
    orphans, orphanTimers, orphanIntervals,
    \* the last handler that ran, its input, and what it did
    op, arg, sent, invoked, errors, notified, created,
    \* the delays of the reconnect timeouts that handler scheduled
    scheduled,
    \* the patterns the gateway holds for the WebSocket in this.ws: those of
    \* its connect URL and subscribe frames, less those of unsubscribe frames
    announced,
    \* TRUE from a close() until the caller next calls subscribe() or reconnect()
    closedSince,
    \* the subscription handles returned to the caller so far
    handles,
    \* the handles whose unsubscribe() was called since the last subscribe()
    spent,
    \* inputs and result of the last matchesPattern evaluation
    mT, mP, mRes

clientVars == <<status, subscriptions, pendingPatterns, reconnectAttempts,
                reconnectTimeout, pingInterval, ws, eventSource>>
configVars == <<useSSE, maxReconnectAttempts, reconnectDelay, options>>
hostVars == <<orphans, orphanTimers, orphanIntervals>>
effectVars == <<op, arg, sent, invoked, errors, notified, created, scheduled>>
callerVars == <<closedSince, handles, spent>>
matchVars == <<mT, mP, mRes>>
serverVars == <<announced>>
vars == <<clientVars, configVars, hostVars, effectVars, callerVars, matchVars,
          serverVars>>

(* ------------------------------ run record ----------------------------- *)
\* the state a handler starts from, with nothing observed yet
Begin ==
    [status |-> status, subscriptions |-> subscriptions,
     pendingPatterns |-> pendingPatterns,
     reconnectAttempts |-> reconnectAttempts,
     reconnectTimeout |-> reconnectTimeout, pingInterval |-> pingInterval,
     ws |-> ws, eventSource |-> eventSource,
     orphans |-> orphans, orphanTimers |-> orphanTimers,
     orphanIntervals |-> orphanIntervals,
     sent |-> <<>>, invoked |-> <<>>, errors |-> <<>>, notified |-> <<>>,
     created |-> <<>>, scheduled |-> <<>>, overflow |-> FALSE]

\* what the gateway holds after the frames of one handler, in order
RECURSIVE ApplyFrames(_, _)
ApplyFrames(held, frames) ==
    IF frames = <<>> THEN held
    ELSE LET f == Head(frames)
             ps == {f.patterns[i] : i \in 1..Len(f.patterns)}
         IN  ApplyFrames(IF f.type = "subscribe" THEN held \cup ps
                         ELSE IF f.type = "unsubscribe" THEN held \ ps
                         ELSE held,
                         Tail(frames))

\* what the gateway holds for this.ws once the handler has returned: a
\* handler sends its frames before it replaces or releases the socket, and a
\* new socket starts from the channels parameter of its URL
Announced(c, held) ==
    IF c.ws = "null" THEN {}
    ELSE IF c.created # <<>>
    THEN {c.created[Len(c.created)][i] : i \in 1..Len(c.created[Len(c.created)])}
    ELSE ApplyFrames(held, c.sent)

\* the handler named o, run on input a, has returned leaving c
Commit(c, o, a) ==
    /\ ~c.overflow
    /\ status' = c.status
    /\ subscriptions' = c.subscriptions
    /\ pendingPatterns' = c.pendingPatterns
    /\ reconnectAttempts' = c.reconnectAttempts
    /\ reconnectTimeout' = c.reconnectTimeout
    /\ pingInterval' = c.pingInterval
    /\ ws' = c.ws
    /\ eventSource' = c.eventSource
    /\ orphans' = c.orphans
    /\ orphanTimers' = c.orphanTimers
    /\ orphanIntervals' = c.orphanIntervals
    /\ sent' = c.sent
    /\ invoked' = c.invoked
    /\ errors' = c.errors
    /\ notified' = c.notified
    /\ created' = c.created
    /\ scheduled' = c.scheduled
    /\ announced' = Announced(c, announced)
    /\ op' = o
    /\ arg' = a
    /\ UNCHANGED <<configVars, matchVars>>

(* --------------------------- registry helpers -------------------------- *)
\* subscriptions is a Map<string, Set<EventHandler>>: both keep insertion
\* order, so it is a sequence of entries, each with a sequence of handlers.
Keys(subs) == [i \in 1..Len(subs) |-> subs[i].pattern]
Range(s) == {s[i] : i \in 1..Len(s)}
Has(subs, p) == \E i \in 1..Len(subs) : subs[i].pattern = p
IndexOf(subs, p) == CHOOSE i \in 1..Len(subs) : subs[i].pattern = p
Remove(s, i) == SubSeq(s, 1, i - 1) \o SubSeq(s, i + 1, Len(s))
\* Set.prototype.add / delete on an insertion-ordered set
SetAdd(s, x) == IF x \in Range(s) THEN s ELSE Append(s, x)
SetDelete(s, x) ==
    IF x \in Range(s) THEN Remove(s, CHOOSE i \in 1..Len(s) : s[i] = x) ELSE s

RECURSIVE AddAll(_, _)
AddAll(s, t) == IF t = <<>> THEN s ELSE AddAll(SetAdd(s, Head(t)), Tail(t))

GetAllPatterns(c) == AddAll(AddAll(<<>>, Keys(c.subscriptions)), c.pendingPatterns)

GetSubscriptions == Keys(subscriptions)

(* ------------------------------ setStatus ------------------------------ *)
\* a setStatus that announces every call
SetStatusAlways(c, s) == [c EXCEPT !.status = s, !.notified = Append(@, s)]

SetStatus(c, s) ==
    IF c.status # s
    THEN [c EXCEPT !.status = s, !.notified = Append(@, s)]
    ELSE c

OnError(c, msg) == [c EXCEPT !.errors = Append(@, msg)]

(* ------------------------------ host objects --------------------------- *)
\* readyState of a socket object.  WebSocket: "connecting", "open",
\* "closing" (close() called on an open socket: its close event is due),
\* "aborting" (close() called on a connecting socket: the connection fails,
\* its error and close events are due), "failed" (error event delivered,
\* close event due), "closed" (close event delivered; nothing follows).
\* EventSource: "connecting", "open", "closed" (close() called; nothing
\* follows).  ws and eventSource hold "null" or the readyState of the
\* object they reference.
ReadyStates == {"connecting", "open", "closing", "aborting", "failed", "closed"}
OrphanStates == ReadyStates \ {"closed"}
Live == {"connecting", "open"}

Overflow(c) == [c EXCEPT !.overflow = TRUE]

RECURSIVE SumOver(_, _)
SumOver(f, S) ==
    IF S = {} THEN 0
    ELSE LET x == CHOOSE y \in S : TRUE IN f[x] + SumOver(f, S \ {x})
OrphanCount(b) == SumOver(b, OrphanStates)

\* the client drops its reference to a socket in state rs
Orphan(c, rs) ==
    IF rs \in {"null", "closed"} THEN c
    ELSE IF OrphanCount(c.orphans) >= MaxOrphans THEN Overflow(c)
    ELSE [c EXCEPT !.orphans[rs] = @ + 1]

\* WebSocket.prototype.close()
WebSocketClose(rs) ==
    CASE rs = "connecting" -> "aborting"
      [] rs = "open" -> "closing"
      [] OTHER -> rs

\* WebSocket.prototype.send(): throws while CONNECTING, delivers while OPEN,
\* silently discards once CLOSING or CLOSED
SendThrows(c) == c.ws = "connecting"
WsIsOpen(c) == c.ws = "open"
WsSend(c, frame) ==
    IF WsIsOpen(c) THEN [c EXCEPT !.sent = Append(@, frame)] ELSE c

SubscribeFrame(patterns) == [type |-> "subscribe", patterns |-> patterns]
UnsubscribeFrame(patterns) == [type |-> "unsubscribe", patterns |-> patterns]
PingFrame == [type |-> "ping", patterns |-> <<>>]

(* ------------------------- cleanup / scheduleReconnect ----------------- *)
Cleanup(c) ==
    IF c.pingInterval # "null" THEN [c EXCEPT !.pingInterval = "null"] ELSE c

\* this.pingInterval = setInterval(...): an interval still held is not cleared
StartPing(c) ==
    IF c.pingInterval = "running"
    THEN IF c.orphanIntervals >= MaxOrphanIntervals THEN Overflow(c)
         ELSE [c EXCEPT !.orphanIntervals = @ + 1]
    ELSE [c EXCEPT !.pingInterval = "running"]

\* this.reconnectTimeout = setTimeout(...): a timeout still held is not cleared
StartTimeout(c, delay) ==
    LET c1 == [c EXCEPT !.scheduled = Append(@, delay)]
    IN  IF c.reconnectTimeout = "pending"
        THEN IF c.orphanTimers >= MaxOrphanTimers THEN Overflow(c)
             ELSE [c1 EXCEPT !.orphanTimers = @ + 1]
        ELSE [c1 EXCEPT !.reconnectTimeout = "pending"]

RECURSIVE Pow(_, _)
Pow(b, k) == IF k = 0 THEN 1 ELSE b * Pow(b, k - 1)

Min(a, b) == IF a <= b THEN a ELSE b

\* a delay that keeps growing past the cap
DelayUncapped(base, n) ==
    [num |-> base * Pow(3, n - 1), den |-> Pow(2, n - 1)]

\* Math.min(this.reconnectDelay * Math.pow(1.5, n - 1), 30000), n the counter
\* after its increment.  1.5^(n-1) = 3^(n-1) / 2^(n-1) and the products are
\* exact in double precision for the values drawn, so the delay is the
\* fraction num / den with den = 2^(n-1).
Delay(base, n) ==
    [num |-> Min(base * Pow(3, n - 1), MaxDelay * Pow(2, n - 1)),
     den |-> Pow(2, n - 1)]

MaxReached == "Max reconnection attempts reached"

\* a scheduleReconnect that gives up one disconnect too late
ScheduleReconnectOffByOne(c) ==
    IF c.reconnectAttempts > maxReconnectAttempts
    THEN OnError(SetStatus(c, "error"), MaxReached)
    ELSE IF Len(c.subscriptions) = 0 /\ Len(c.pendingPatterns) = 0
    THEN c
    ELSE StartTimeout([c EXCEPT !.reconnectAttempts = @ + 1],
                      Delay(reconnectDelay, c.reconnectAttempts + 1))

\* a scheduleReconnect without the idle check
ScheduleReconnectNoIdleCheck(c) ==
    IF c.reconnectAttempts >= maxReconnectAttempts
    THEN OnError(SetStatus(c, "error"), MaxReached)
    ELSE IF maxReconnectAttempts = Infinity /\ c.reconnectAttempts >= MaxAttempts
    THEN Overflow(c)
    ELSE StartTimeout([c EXCEPT !.reconnectAttempts = @ + 1],
                      Delay(reconnectDelay, c.reconnectAttempts + 1))

ScheduleReconnect(c) ==
    IF c.reconnectAttempts >= maxReconnectAttempts
    THEN OnError(SetStatus(c, "error"), MaxReached)
    ELSE IF Len(c.subscriptions) = 0 /\ Len(c.pendingPatterns) = 0
    THEN c
    ELSE IF maxReconnectAttempts = Infinity /\ c.reconnectAttempts >= MaxAttempts
    THEN Overflow(c)
    ELSE StartTimeout([c EXCEPT !.reconnectAttempts = @ + 1],
                      Delay(reconnectDelay, c.reconnectAttempts + 1))

(* ------------------------------- connect ------------------------------- *)
\* a connect URL that never names the patterns
ChannelsParamStar(c) == <<Star>>

\* the channels query parameter of the connect URL
ChannelsParam(c) ==
    IF Len(GetAllPatterns(c)) > 0 THEN GetAllPatterns(c) ELSE <<Star>>

\* a connectWebSocket whose catch block does not schedule a reconnect
ConnectWebSocketNoRetry(c, throws) ==
    IF throws
    THEN OnError(SetStatus(c, "error"), "constructor")
    ELSE [Orphan(c, c.ws) EXCEPT !.ws = "connecting",
                                 !.created = Append(@, ChannelsParam(c))]

\* throws: the WebSocket constructor throws (e.g. malformed URL)
ConnectWebSocket(c, throws) ==
    IF throws
    THEN ScheduleReconnect(OnError(SetStatus(c, "error"), "constructor"))
    ELSE [Orphan(c, c.ws) EXCEPT !.ws = "connecting",
                                 !.created = Append(@, ChannelsParam(c))]

ConnectSSE(c, throws) ==
    IF throws
    THEN ScheduleReconnect(OnError(SetStatus(c, "error"), "constructor"))
    ELSE [Orphan(c, c.eventSource) EXCEPT !.eventSource = "connecting",
                                          !.created = Append(@, ChannelsParam(c))]

Connect(c, throws) ==
    IF c.status = "connecting" \/ c.status = "connected"
    THEN c
    ELSE IF useSSE
         THEN ConnectSSE(SetStatus(c, "connecting"), throws)
         ELSE ConnectWebSocket(SetStatus(c, "connecting"), throws)

(* -------------------------------- close -------------------------------- *)
\* a close() that leaves the reconnect timeout pending
KeepReconnectTimeout(c) == c

\* clearTimeout of a timeout that has fired does nothing
ClearReconnectTimeout(c) ==
    IF c.reconnectTimeout # "null" THEN [c EXCEPT !.reconnectTimeout = "null"] ELSE c

CloseWs(c) ==
    IF c.ws # "null"
    THEN [Orphan(c, WebSocketClose(c.ws)) EXCEPT !.ws = "null"]
    ELSE c

CloseEventSource(c) ==
    IF c.eventSource # "null" THEN [c EXCEPT !.eventSource = "null"] ELSE c

\* a close() that also forgets the subscriptions
CloseClearing(c) ==
    SetStatus([CloseEventSource(CloseWs(Cleanup(ClearReconnectTimeout(c))))
                   EXCEPT !.subscriptions = <<>>, !.pendingPatterns = <<>>],
              "disconnected")

\* a close() that announces 'disconnected' on every call
CloseAnnouncing(c) ==
    LET c1 == CloseEventSource(CloseWs(Cleanup(ClearReconnectTimeout(c))))
    IN  [c1 EXCEPT !.status = "disconnected", !.notified = Append(@, "disconnected")]

Close(c) ==
    SetStatus(CloseEventSource(CloseWs(Cleanup(ClearReconnectTimeout(c)))),
              "disconnected")

Reconnect(c, throws) ==
    LET c1 == [Close(c) EXCEPT !.reconnectAttempts = 0]
    IN  IF Len(c1.subscriptions) > 0 THEN Connect(c1, throws) ELSE c1

(* ------------------------------- dispatch ------------------------------ *)
\* An inbound frame: text that does not parse ("garbage"), or a JSON object
\* with an optional type, event_type and channel.
Falsy(str) == str = Absent \/ str = <<>>

\* event.event_type || event.channel.split(':').pop() || ''
\* reading .split of a missing channel throws a TypeError
EventTypeThrows(event) == Falsy(event.event_type) /\ event.channel = Absent
EventTypeOf(event) ==
    IF ~Falsy(event.event_type) THEN event.event_type
    ELSE LastSegment(event.channel)

\* the handler loop without the try/catch: a throwing handler ends it
RECURSIVE InvokeHandlersNoCatch(_, _, _)
InvokeHandlersNoCatch(pattern, handlers, thr) ==
    IF handlers = <<>> THEN <<>>
    ELSE <<[pattern |-> pattern, handler |-> Head(handlers),
            threw |-> Head(handlers) \in thr]>>
         \o (IF Head(handlers) \in thr THEN <<>>
             ELSE InvokeHandlersNoCatch(pattern, Tail(handlers), thr))

\* for (const handler of handlers) { try { handler(event) } catch { log } }
\* thr: the handlers that throw when invoked
RECURSIVE InvokeHandlers(_, _, _)
InvokeHandlers(pattern, handlers, thr) ==
    IF handlers = <<>> THEN <<>>
    ELSE <<[pattern |-> pattern, handler |-> Head(handlers),
            threw |-> Head(handlers) \in thr]>>
         \o InvokeHandlers(pattern, Tail(handlers), thr)

\* the pattern loop leaving at the first pattern that matches
RECURSIVE DispatchLoopFirstMatch(_, _, _)
DispatchLoopFirstMatch(subs, eventType, thr) ==
    IF subs = <<>> THEN <<>>
    ELSE IF MatchesPattern(eventType, Head(subs).pattern)
         THEN InvokeHandlers(Head(subs).pattern, Head(subs).handlers, thr)
         ELSE DispatchLoopFirstMatch(Tail(subs), eventType, thr)

\* for (const [pattern, handlers] of this.subscriptions) ...
RECURSIVE DispatchLoop(_, _, _)
DispatchLoop(subs, eventType, thr) ==
    IF subs = <<>> THEN <<>>
    ELSE (IF MatchesPattern(eventType, Head(subs).pattern)
          THEN InvokeHandlers(Head(subs).pattern, Head(subs).handlers, thr)
          ELSE <<>>)
         \o DispatchLoop(Tail(subs), eventType, thr)

\* the TypeError of the event type escapes dispatchEvent; both callers catch it
DispatchEvent(c, event, thr) ==
    IF EventTypeThrows(event) THEN c
    ELSE [c EXCEPT !.invoked = @ \o DispatchLoop(c.subscriptions, EventTypeOf(event), thr)]

(* ------------------------ subscribe / unsubscribe ---------------------- *)
\* handlers kept in a list: a second registration is a second entry
AddHandlerAppend(c, pattern, handler) ==
    [c EXCEPT !.subscriptions[IndexOf(c.subscriptions, pattern)].handlers =
                  Append(@, handler)]

AddHandler(c, pattern, handler) ==
    [c EXCEPT !.subscriptions[IndexOf(c.subscriptions, pattern)].handlers =
                  SetAdd(@, handler)]

\* a subscribe frame that carries the new pattern only
RegisterPatternDelta(c, pattern) ==
    LET c1 == [c EXCEPT !.subscriptions =
                   Append(@, [pattern |-> pattern, handlers |-> <<>>])]
    IN  IF WsIsOpen(c1)
        THEN WsSend(c1, SubscribeFrame(<<pattern>>))
        ELSE [c1 EXCEPT !.pendingPatterns = SetAdd(@, pattern)]

RegisterPattern(c, pattern) ==
    LET c1 == [c EXCEPT !.subscriptions =
                   Append(@, [pattern |-> pattern, handlers |-> <<>>])]
    IN  IF WsIsOpen(c1)
        THEN WsSend(c1, SubscribeFrame(GetAllPatterns(c1)))
        ELSE [c1 EXCEPT !.pendingPatterns = SetAdd(@, pattern)]

\* a subscribe that calls connect() whatever the status is
SubscribeAlwaysConnects(c, pattern, handler, throws) ==
    LET c1 == IF ~Has(c.subscriptions, pattern) THEN RegisterPattern(c, pattern) ELSE c
        c2 == AddHandler(c1, pattern, handler)
    IN  Connect(c2, throws)

Subscribe(c, pattern, handler, throws) ==
    LET c1 == IF ~Has(c.subscriptions, pattern) THEN RegisterPattern(c, pattern) ELSE c
        c2 == AddHandler(c1, pattern, handler)
    IN  IF c2.status = "disconnected" THEN Connect(c2, throws) ELSE c2

\* a removal of the last handler that leaves the pattern pending
DropPatternKeepsPending(c, pattern) ==
    LET c1 == [c EXCEPT !.subscriptions = Remove(@, IndexOf(c.subscriptions, pattern))]
    IN  IF WsIsOpen(c1) THEN WsSend(c1, UnsubscribeFrame(<<pattern>>)) ELSE c1

\* dropping a pattern from the registry only
DropPatternRegistryOnly(c, pattern) ==
    [c EXCEPT !.subscriptions = Remove(@, IndexOf(c.subscriptions, pattern))]

DropPattern(c, pattern) ==
    LET c1 == [c EXCEPT !.subscriptions = Remove(@, IndexOf(c.subscriptions, pattern)),
                        !.pendingPatterns = SetDelete(@, pattern)]
    IN  IF WsIsOpen(c1) THEN WsSend(c1, UnsubscribeFrame(<<pattern>>)) ELSE c1

\* an unsubscribe that drops the whole pattern
UnsubscribeWholePattern(c, pattern, handler) ==
    LET c1 == IF Has(c.subscriptions, pattern) THEN DropPattern(c, pattern) ELSE c
    IN  IF Len(c1.subscriptions) = 0 THEN Close(c1) ELSE c1

\* an unsubscribe that keeps the key of an emptied handler set
UnsubscribeKeepsKey(c, pattern, handler) ==
    LET c1 == IF Has(c.subscriptions, pattern)
              THEN [c EXCEPT !.subscriptions[IndexOf(c.subscriptions, pattern)].handlers =
                                 SetDelete(@, handler)]
              ELSE c
    IN  IF Len(c1.subscriptions) = 0 THEN Close(c1) ELSE c1

UnsubscribeHandler(c, pattern, handler) ==
    LET c1 == IF Has(c.subscriptions, pattern)
              THEN LET i == IndexOf(c.subscriptions, pattern)
                       d == [c EXCEPT !.subscriptions[i].handlers = SetDelete(@, handler)]
                   IN  IF Len(d.subscriptions[i].handlers) = 0
                       THEN DropPattern(d, pattern)
                       ELSE d
              ELSE c
    IN  IF Len(c1.subscriptions) = 0 THEN Close(c1) ELSE c1

(* ---------------------------- socket callbacks ------------------------- *)
\* an onopen that does not send the patterns added while connecting
WsOnOpenNoFlush(c) ==
    LET c1 == [SetStatus(c, "connected") EXCEPT !.reconnectAttempts = 0]
    IN  StartPing([c1 EXCEPT !.pendingPatterns = <<>>])

\* ws.onopen
WsOnOpen(c) ==
    LET c1 == [SetStatus(c, "connected") EXCEPT !.reconnectAttempts = 0]
        all == GetAllPatterns(c1)
    IN  IF Len(all) > 0 /\ SendThrows(c1)
        THEN c1   \* send() throws InvalidStateError: the rest of the callback is skipped
        ELSE LET c2 == IF Len(all) > 0 THEN WsSend(c1, SubscribeFrame(all)) ELSE c1
                 c3 == [c2 EXCEPT !.pendingPatterns = <<>>]
             IN  StartPing(c3)

\* an onmessage that reports a frame it cannot parse
WsOnMessageReporting(c, frame, thr) ==
    IF frame.kind = "garbage" THEN OnError(SetStatus(c, "error"), "parse")
    ELSE IF frame.type \in ControlTypes THEN c
    ELSE DispatchEvent(c, frame, thr)

\* ws.onmessage
WsOnMessage(c, frame, thr) ==
    IF frame.kind = "garbage" THEN c
    ELSE IF frame.type \in ControlTypes THEN c
    ELSE DispatchEvent(c, frame, thr)

\* ws.onclose
WsOnClose(c) == ScheduleReconnect(Cleanup(SetStatus(c, "disconnected")))

\* an onerror that schedules the reconnect itself
WsOnErrorSchedules(c) ==
    ScheduleReconnect(OnError(SetStatus(c, "error"), "WebSocket connection error"))

\* ws.onerror
WsOnError(c) == OnError(SetStatus(c, "error"), "WebSocket connection error")

\* the keep-alive callback
PingCallback(c) == IF WsIsOpen(c) THEN WsSend(c, PingFrame) ELSE c

\* eventSource.onopen
SseOnOpen(c) == [SetStatus(c, "connected") EXCEPT !.reconnectAttempts = 0]

\* eventSource.onmessage
SseOnMessage(c, frame, thr) ==
    IF frame.kind = "garbage" THEN c ELSE DispatchEvent(c, frame, thr)

\* eventSource.onerror
SseOnError(c) ==
    ScheduleReconnect(
        CloseEventSource(OnError(SetStatus(c, "error"), "SSE connection error")))

(* -------------------------------- inputs ------------------------------- *)
NoFrame == [kind |-> "none", type |-> "none", event_type |-> Absent, channel |-> Absent]
Garbage == [NoFrame EXCEPT !.kind = "garbage"]
ControlFrame(t) == [NoFrame EXCEPT !.kind = "json", !.type = t]
EventFrame(et, ch) == [NoFrame EXCEPT !.kind = "json", !.event_type = et, !.channel = ch]

EventFrames ==
    {EventFrame(et, Absent) : et \in EventTypes}
        \cup {EventFrame(Absent, ch) : ch \in Channels}
        \cup {EventFrame(Absent, Absent)}
Frames == {Garbage} \cup {ControlFrame(t) : t \in ControlTypes} \cup EventFrames

\* the handlers that may throw when invoked
Throwers == {"h1"}
\* an inbound frame together with the handlers that throw on it
Inbound ==
    {[frame |-> f, thr |-> {}] : f \in Frames}
        \cup {[frame |-> f, thr |-> t] : f \in EventFrames, t \in (SUBSET Throwers) \ {{}}}

\* the input of a handler: the arguments of a caller's operation; for a host
\* event the object it is delivered for (the one the client references, or
\* an orphan, and the readyState it had) and the frame it carries
NoArg == [pattern |-> <<>>, handler |-> "none", current |-> TRUE, was |-> "none",
          frame |-> NoFrame, thr |-> {}]
Target(cur, from) == [NoArg EXCEPT !.current = cur, !.was = from]

(* --------------------------------- Init -------------------------------- *)
\* the matchesPattern evaluation is idle in the client's specification
MatchIdle == mT = <<>> /\ mP = <<>> /\ mRes = <<>>

InitClient ==
    /\ status = "disconnected"
    /\ subscriptions = <<>>
    /\ pendingPatterns = <<>>
    /\ reconnectAttempts = 0
    /\ reconnectTimeout = "null"
    /\ pingInterval = "null"
    /\ ws = "null"
    /\ eventSource = "null"
    /\ orphans = [rs \in OrphanStates |-> 0]
    /\ orphanTimers = 0
    /\ orphanIntervals = 0
    /\ op = "init"
    /\ arg = NoArg
    /\ sent = <<>>
    /\ invoked = <<>>
    /\ errors = <<>>
    /\ notified = <<>>
    /\ created = <<>>
    /\ scheduled = <<>>
    /\ announced = {}
    /\ closedSince = FALSE
    /\ handles = {}
    /\ spent = {}

\* An optional numeric option is <<>> when omitted and <<v>> when given.
NoOptions == [reconnectDelayMs |-> <<>>, maxReconnectAttempts |-> <<>>]
WithMax(n) == [NoOptions EXCEPT !.maxReconnectAttempts = <<n>>]

\* option || default: an omitted option and a given 0 are both falsy
OrDefault(o, d) == IF o = <<>> \/ o[1] = 0 THEN d ELSE o[1]

\* the constructor
Constructor(opts) ==
    /\ options = opts
    /\ reconnectDelay = OrDefault(opts.reconnectDelayMs, DefaultDelay)
    /\ maxReconnectAttempts = OrDefault(opts.maxReconnectAttempts, Infinity)

\* the client as constructed with no numeric option
Init ==
    /\ InitClient
    /\ useSSE \in BOOLEAN
    /\ Constructor(NoOptions)
    /\ MatchIdle

(* ---------------------------- caller's actions ------------------------- *)
DoSubscribe(p, h, throws) ==
    /\ Commit(Subscribe(Begin, p, h, throws), "subscribe",
              [NoArg EXCEPT !.pattern = p, !.handler = h])
    /\ handles' = handles \cup {<<p, h>>}
    /\ spent' = {}
    /\ closedSince' = FALSE

DoUnsubscribe(p, h) ==
    /\ <<p, h>> \in handles
    /\ Commit(UnsubscribeHandler(Begin, p, h), "unsubscribe",
              [NoArg EXCEPT !.pattern = p, !.handler = h])
    /\ spent' = spent \cup {<<p, h>>}
    /\ UNCHANGED <<closedSince, handles>>

DoReconnect(throws) ==
    /\ Commit(Reconnect(Begin, throws), "reconnect", NoArg)
    /\ closedSince' = FALSE
    /\ UNCHANGED <<handles, spent>>

DoClose ==
    /\ Commit(Close(Begin), "close", NoArg)
    /\ closedSince' = TRUE
    /\ UNCHANGED <<handles, spent>>

(* ------------------------------ host's actions ------------------------- *)
BagMove(b, from, to) ==
    LET b1 == [b EXCEPT ![from] = @ - 1]
    IN  IF to = "closed" THEN b1 ELSE [b1 EXCEPT ![to] = @ + 1]

\* a WebSocket in readyState from exists: the current one, or an orphan
WsIn(cur, from) == IF cur THEN ws = from ELSE orphans[from] > 0
\* the state a callback of that WebSocket starts from, its readyState now to
WsAt(cur, from, to) ==
    IF cur THEN [Begin EXCEPT !.ws = to]
    ELSE [Begin EXCEPT !.orphans = BagMove(@, from, to)]

EsIn(cur, from) == IF cur THEN eventSource = from ELSE orphans[from] > 0
EsAt(cur, from, to) ==
    IF cur THEN [Begin EXCEPT !.eventSource = to]
    ELSE [Begin EXCEPT !.orphans = BagMove(@, from, to)]

\* a reconnect timeout expires: its callback calls connect()
TimerFire(cur, throws) ==
    /\ IF cur THEN reconnectTimeout = "pending" ELSE orphanTimers > 0
    /\ Commit(Connect(IF cur THEN [Begin EXCEPT !.reconnectTimeout = "fired"]
                      ELSE [Begin EXCEPT !.orphanTimers = @ - 1], throws),
              "timer", Target(cur, "pending"))
    /\ UNCHANGED callerVars

\* a keep-alive interval ticks
PingTick(cur) ==
    /\ IF cur THEN pingInterval = "running" ELSE orphanIntervals > 0
    /\ Commit(PingCallback(Begin), "ping", Target(cur, "running"))
    /\ UNCHANGED callerVars

\* the open event of a WebSocket
WsOpen(cur) ==
    /\ ~useSSE
    /\ WsIn(cur, "connecting")
    /\ Commit(WsOnOpen(WsAt(cur, "connecting", "open")), "open",
              Target(cur, "connecting"))
    /\ UNCHANGED callerVars

\* a message event of a WebSocket
WsMessage(cur, in) ==
    /\ ~useSSE
    /\ WsIn(cur, "open")
    /\ Commit(WsOnMessage(WsAt(cur, "open", "open"), in.frame, in.thr), "message",
              [Target(cur, "open") EXCEPT !.frame = in.frame, !.thr = in.thr])
    /\ UNCHANGED callerVars

\* the error event of a WebSocket: the connection has failed, or was
\* closed by the client before it was established
WsError(cur, from) ==
    /\ ~useSSE
    /\ WsIn(cur, from)
    /\ Commit(WsOnError(WsAt(cur, from, "failed")), "error", Target(cur, from))
    /\ UNCHANGED callerVars

\* the close event of a WebSocket
WsClose(cur, from) ==
    /\ ~useSSE
    /\ WsIn(cur, from)
    /\ Commit(WsOnClose(WsAt(cur, from, "closed")), "closeEvent", Target(cur, from))
    /\ UNCHANGED callerVars

\* the open event of an EventSource
SseOpen(cur) ==
    /\ useSSE
    /\ EsIn(cur, "connecting")
    /\ Commit(SseOnOpen(EsAt(cur, "connecting", "open")), "open",
              Target(cur, "connecting"))
    /\ UNCHANGED callerVars

\* a message event of an EventSource
SseMessage(cur, in) ==
    /\ useSSE
    /\ EsIn(cur, "open")
    /\ Commit(SseOnMessage(EsAt(cur, "open", "open"), in.frame, in.thr), "message",
              [Target(cur, "open") EXCEPT !.frame = in.frame, !.thr = in.thr])
    /\ UNCHANGED callerVars

\* the error event of an EventSource: the stream is retrying (CONNECTING)
\* unless the callback closes it
SseError(cur, from) ==
    /\ useSSE
    /\ EsIn(cur, from)
    /\ Commit(SseOnError(EsAt(cur, from, "connecting")), "error", Target(cur, from))
    /\ UNCHANGED callerVars

(* --------------------- the connection state machine -------------------- *)
\* Every operation of the caller and every event of the host, in any order,
\* on a client constructed with the default maximum (unbounded).  One handler
\* and one event frame: what is dispatched to whom is the subject of
\* DispatchSpec.
ConnHandlers == {"h1"}
ConnInbound == {[frame |-> EventFrame(<<"a", ".", "b">>, Absent), thr |-> {}]}

Next ==
    \/ \E p \in Patterns, h \in ConnHandlers, throws \in BOOLEAN : DoSubscribe(p, h, throws)
    \/ \E p \in Patterns, h \in ConnHandlers : DoUnsubscribe(p, h)
    \/ \E throws \in BOOLEAN : DoReconnect(throws)
    \/ DoClose
    \/ \E cur \in BOOLEAN, throws \in BOOLEAN : TimerFire(cur, throws)
    \/ \E cur \in BOOLEAN : PingTick(cur)
    \/ \E cur \in BOOLEAN : WsOpen(cur)
    \/ \E cur \in BOOLEAN, in \in ConnInbound : WsMessage(cur, in)
    \/ \E cur \in BOOLEAN, from \in {"connecting", "open", "aborting"} : WsError(cur, from)
    \/ \E cur \in BOOLEAN, from \in {"open", "closing", "failed"} : WsClose(cur, from)
    \/ \E cur \in BOOLEAN : SseOpen(cur)
    \/ \E cur \in BOOLEAN, in \in ConnInbound : SseMessage(cur, in)
    \/ \E cur \in BOOLEAN, from \in {"connecting", "open"} : SseError(cur, from)

Spec == Init /\ [][Next]_vars

(* ------------------------------------------------------------------------ *)
(* C1.  After close() returns the client creates no new transport and the   *)
(* status stays 'disconnected' until the caller next calls subscribe() or   *)
(* reconnect(), whatever transport events or timer firings occur.           *)
(* ------------------------------------------------------------------------ *)
ClosedStaysClosed ==
    closedSince => (status = "disconnected" /\ created = <<>>)

(* ------------------------------------------------------------------------ *)
(* C2.  At most one live transport: there are never two sockets created by  *)
(* the client that are simultaneously connecting or open.                   *)
(* ------------------------------------------------------------------------ *)
LiveSockets ==
    (IF ws \in Live THEN 1 ELSE 0) + (IF eventSource \in Live THEN 1 ELSE 0)
        + orphans["connecting"] + orphans["open"]

AtMostOneLiveTransport == LiveSockets <= 1

(* ------------------------------------------------------------------------ *)
(* Recovery.  The caller subscribes, unsubscribes (never its last pattern)  *)
(* and calls reconnect(), but never close(); constructors do not throw.     *)
(* The host delivers what is due: a pending timeout fires, a connecting     *)
(* socket opens or fails, a failed or closing socket gets its close event.  *)
(* A socket that is open may stay open for ever.                            *)
(* ------------------------------------------------------------------------ *)
KeepsAPattern(p, h) ==
    IF Has(subscriptions, p) /\ Len(subscriptions) = 1
    THEN Range(subscriptions[1].handlers) # {h}
    ELSE TRUE

Resolve(cur) == WsOpen(cur) \/ WsError(cur, "connecting")
SseResolve(cur) == SseOpen(cur) \/ SseError(cur, "connecting")

LiveNext ==
    \/ \E p \in Patterns, h \in ConnHandlers : DoSubscribe(p, h, FALSE)
    \/ \E p \in Patterns, h \in ConnHandlers : KeepsAPattern(p, h) /\ DoUnsubscribe(p, h)
    \/ DoReconnect(FALSE)
    \/ \E cur \in BOOLEAN : TimerFire(cur, FALSE)
    \/ \E cur \in BOOLEAN : Resolve(cur)
    \/ \E cur \in BOOLEAN, from \in {"open", "aborting"} : WsError(cur, from)
    \/ \E cur \in BOOLEAN, from \in {"open", "closing", "failed"} : WsClose(cur, from)
    \/ \E cur \in BOOLEAN : SseResolve(cur)
    \/ \E cur \in BOOLEAN : SseError(cur, "open")

Delivery ==
    /\ \A cur \in BOOLEAN : WF_vars(TimerFire(cur, FALSE))
    /\ \A cur \in BOOLEAN : WF_vars(Resolve(cur))
    /\ \A cur \in BOOLEAN : WF_vars(WsError(cur, "aborting"))
    /\ \A cur \in BOOLEAN, from \in {"closing", "failed"} : WF_vars(WsClose(cur, from))
    /\ \A cur \in BOOLEAN : WF_vars(SseResolve(cur))

LiveSpec == Init /\ [][LiveNext]_vars /\ Delivery

(* ------------------------------------------------------------------------ *)
(* C3.  With a pattern registered, an unbounded maximum and no close(),     *)
(* every loss of the transport (WebSocket close event, SSE error) is        *)
(* eventually followed by a new connection attempt; and once a transport    *)
(* opens the status is 'connected' and (WebSocket) every registered pattern *)
(* is sent to the server on it.                                             *)
(* ------------------------------------------------------------------------ *)
\* the socket the client references has closed (WebSocket) or failed (SSE)
TransportLost ==
    /\ Len(subscriptions) > 0
    /\ arg.current
    /\ \/ ~useSSE /\ op = "closeEvent"
       \/ useSSE /\ op = "error"

ConnectionAttempted == created # <<>>

\* the socket that has just opened is the one the client sends on
OpenedAndResent ==
    op = "open" =>
        /\ status = "connected"
        /\ ~useSSE => /\ arg.current
                      /\ sent = <<SubscribeFrame(Keys(subscriptions))>>

LossIsRecovered ==
    /\ TransportLost ~> ConnectionAttempted
    /\ []OpenedAndResent

(* --------------------------- registry and dispatch ---------------------- *)
\* Two handlers and every kind of inbound frame, on a connection that does
\* not fail: the caller subscribes and unsubscribes, the socket opens and
\* delivers frames.  In WebSocket mode the caller keeps at least one pattern
\* (so no socket is closed and no close event is due); in SSE mode it may
\* also drop its last pattern, which closes the stream.
DispatchNext ==
    \/ \E p \in Patterns, h \in Handlers : DoSubscribe(p, h, FALSE)
    \/ \E p \in Patterns, h \in Handlers :
           (useSSE \/ KeepsAPattern(p, h)) /\ DoUnsubscribe(p, h)
    \/ WsOpen(TRUE)
    \/ \E in \in Inbound : WsMessage(TRUE, in)
    \/ SseOpen(TRUE)
    \/ \E in \in Inbound : SseMessage(TRUE, in)

DispatchSpec == Init /\ [][DispatchNext]_vars

(* ---------------------- matchesPattern as a function -------------------- *)
\* every string of at most MaxLen characters
Strings == UNION {[1..n -> Chars] : n \in 0..MaxLen}

MatchInit ==
    /\ InitClient
    /\ useSSE = FALSE
    /\ Constructor(NoOptions)
    /\ mT \in Strings
    /\ mP \in Strings
    /\ mRes = <<>>

Evaluate ==
    /\ mRes = <<>>
    /\ mRes' = <<MatchesPattern(mT, mP)>>
    /\ UNCHANGED <<clientVars, configVars, hostVars, effectVars, callerVars, mT, mP,
                   serverVars>>

MatchSpec == MatchInit /\ [][Evaluate]_vars

(* --------------------------- a configured maximum ----------------------- *)
\* the client as constructed with maxReconnectAttempts: N, N >= 1, with
\* every operation of the caller and every event of the host
MaxInit ==
    /\ InitClient
    /\ useSSE \in BOOLEAN
    /\ \E n \in 1..MaxAttempts : Constructor(WithMax(n))
    /\ MatchIdle

MaxSpec == MaxInit /\ [][Next]_vars

(* ------------------------------- backoff ------------------------------- *)
\* A client whose connections never open: every attempt fails, the timer
\* fires, the next attempt fails, ... so the attempt counter is never reset
\* and climbs to the configured maximum.
BaseDelays == {1000, DefaultDelay, 20000, MaxDelay, 40000}

BackoffInit ==
    /\ InitClient
    /\ useSSE \in BOOLEAN
    /\ \E d \in BaseDelays :
           Constructor([reconnectDelayMs |-> <<d>>, maxReconnectAttempts |-> <<MaxBackoff>>])
    /\ MatchIdle

BackoffNext ==
    \/ DoSubscribe(Star, "h1", FALSE)
    \/ \E cur \in BOOLEAN : TimerFire(cur, FALSE)
    \/ WsError(TRUE, "connecting")
    \/ WsClose(TRUE, "failed")
    \/ SseError(TRUE, "connecting")

BackoffSpec == BackoffInit /\ [][BackoffNext]_vars

(* ------------------------------- options ------------------------------- *)
\* The client constructed with each combination of the two numeric options,
\* omitted or given, on connections that never open.
OptionDelays == {<<>>, <<0>>, <<1000>>}
OptionMaxes == {<<>>} \cup {<<n>> : n \in 0..MaxAttempts}

OptionsInit ==
    /\ InitClient
    /\ useSSE \in BOOLEAN
    /\ \E d \in OptionDelays, m \in OptionMaxes :
           Constructor([reconnectDelayMs |-> d, maxReconnectAttempts |-> m])
    /\ MatchIdle

OptionsSpec == OptionsInit /\ [][BackoffNext]_vars

(* ------------------------------------------------------------------------ *)
(* C4.  The subscription registry is changed only by subscribe() and by a   *)
(* handle's unsubscribe(): close(), reconnect(), timer firings and every    *)
(* transport event leave the patterns and their handler sets unchanged.     *)
(* ------------------------------------------------------------------------ *)
RegistryFrame ==
    [][subscriptions' # subscriptions => op' \in {"subscribe", "unsubscribe"}]_vars

\* close() has returned and the patterns are still registered
ClosedWithPatterns == op = "close" /\ Len(subscriptions) = 2

(* ------------------------------------------------------------------------ *)
(* C5.  For each dispatched event, handler h is invoked exactly once for    *)
(* each registered pattern p that matches the event type and has h in its   *)
(* handler set, handlers of non-matching patterns are not invoked, and      *)
(* within one pattern handlers run in registration order.                   *)
(* ------------------------------------------------------------------------ *)
HandlersIn(subs, p) == IF Has(subs, p) THEN subs[IndexOf(subs, p)].handlers ELSE <<>>

\* the last handler was a message callback that reached the dispatch loop
Dispatched ==
    /\ op = "message"
    /\ arg.frame.kind = "json"
    /\ useSSE \/ arg.frame.type \notin ControlTypes
    /\ ~EventTypeThrows(arg.frame)

\* the handlers invoked for pattern p, in the order of their invocation
InvokedFor(p) ==
    LET ForP(r) == r.pattern = p
        calls == SelectSeq(invoked, ForP)
    IN  [i \in 1..Len(calls) |-> calls[i].handler]

InvokedPatterns == {invoked[i].pattern : i \in 1..Len(invoked)}

DispatchExactlyOnce ==
    Dispatched =>
        \A p \in Patterns \cup InvokedPatterns :
            InvokedFor(p) = IF MatchesPattern(EventTypeOf(arg.frame), p)
                            THEN HandlersIn(subscriptions, p)
                            ELSE <<>>

\* h1 has been invoked under both patterns, after h2 under the first one
InvokedTwice ==
    /\ Dispatched
    /\ Len(subscriptions) = 2
    /\ InvokedFor(subscriptions[1].pattern) = <<"h2", "h1">>
    /\ InvokedFor(subscriptions[2].pattern) = <<"h1">>

(* ------------------------------------------------------------------------ *)
(* C6.  matchesPattern(T, P) is true exactly when P is '*', or P = T, or P  *)
(* ends with '.*' and T starts with P minus the '.*' plus '.', or T starts  *)
(* with P + '.'.  With 'a' for 'counter' and 'aa' for 'counterx':           *)
(* 'a.*' matches 'a.a' but not 'a', 'a' matches 'a.a' but not 'aa.a'.       *)
(* ------------------------------------------------------------------------ *)
MatchRule(T, P) ==
    \/ P = <<"*">>
    \/ P = T
    \/ /\ Len(P) >= 2
       /\ P[Len(P) - 1] = "." /\ P[Len(P)] = "*"
       /\ Len(T) >= Len(P) - 1
       /\ \A i \in 1..(Len(P) - 2) : T[i] = P[i]
       /\ T[Len(P) - 1] = "."
    \/ /\ Len(T) >= Len(P) + 1
       /\ \A i \in 1..Len(P) : T[i] = P[i]
       /\ T[Len(P) + 1] = "."

MatchExamples ==
    /\ (mP = <<"*">>) => mRes = <<TRUE>>
    /\ (mP = mT) => mRes = <<TRUE>>
    /\ (mT = <<"a", ".", "a">> /\ mP = <<"a", ".", "*">>) => mRes = <<TRUE>>
    /\ (mT = <<"a">> /\ mP = <<"a", ".", "*">>) => mRes = <<FALSE>>
    /\ (mT = <<"a", ".", "a">> /\ mP = <<"a">>) => mRes = <<TRUE>>
    /\ (mT = <<"a", "a", ".", "a">> /\ mP = <<"a">>) => mRes = <<FALSE>>

MatchesExactlyTheRule ==
    mRes # <<>> => (mRes = <<MatchRule(mT, mP)>> /\ MatchExamples)

\* 'counter.*' has been found not to match 'counter'
GlobRejectsBareBase ==
    mT = <<"a">> /\ mP = <<"a", ".", "*">> /\ mRes = <<FALSE>>

(* ------------------------------------------------------------------------ *)
(* C7.  Handler isolation: when a handler throws during dispatch, every     *)
(* other handler that should receive the event is still invoked, onError is *)
(* not invoked, and status, registry and timers are unchanged.              *)
(* ------------------------------------------------------------------------ *)
SomeHandlerThrew == \E i \in 1..Len(invoked) : invoked[i].threw

\* every handler of every matching pattern has an invocation
AllReceiversInvoked ==
    \A i \in 1..Len(subscriptions) :
        MatchesPattern(EventTypeOf(arg.frame), subscriptions[i].pattern) =>
            \A h \in Range(subscriptions[i].handlers) :
                \E k \in 1..Len(invoked) :
                    /\ invoked[k].pattern = subscriptions[i].pattern
                    /\ invoked[k].handler = h

HandlerIsolation ==
    [][(op' = "message" /\ SomeHandlerThrew') =>
           /\ AllReceiversInvoked'
           /\ errors' = <<>>
           /\ UNCHANGED <<clientVars, hostVars>>]_vars

\* h1 threw and h2, registered after it under the same pattern, was invoked
InvokedAfterThrow ==
    /\ op = "message"
    /\ \E i \in 1..Len(invoked) : \E k \in (i + 1)..Len(invoked) :
           /\ invoked[i].threw
           /\ invoked[k].pattern = invoked[i].pattern
           /\ ~invoked[k].threw

(* ------------------------------------------------------------------------ *)
(* C8.  unsubscribe() on the handle of subscribe(p, h) removes only h from  *)
(* p's handler set - other handlers of p and all other patterns are         *)
(* untouched - and afterwards p is absent from getSubscriptions() if and    *)
(* only if h was the only handler registered for p.                         *)
(* ------------------------------------------------------------------------ *)
Without(handlers, h) == LET Other(x) == x # h IN SelectSeq(handlers, Other)

UnsubscribeRemovesOnlyH ==
    [][op' = "unsubscribe" =>
           LET p == arg'.pattern
               h == arg'.handler
           IN  /\ \A q \in Patterns \ {p} :
                      /\ Has(subscriptions', q) <=> Has(subscriptions, q)
                      /\ HandlersIn(subscriptions', q) = HandlersIn(subscriptions, q)
               /\ HandlersIn(subscriptions', p) = Without(HandlersIn(subscriptions, p), h)
               /\ h \in Range(HandlersIn(subscriptions, p)) =>
                      (~Has(subscriptions', p) <=>
                           Range(HandlersIn(subscriptions, p)) = {h})
               /\ \A i \in 1..Len(subscriptions') :
                      subscriptions'[i].pattern \in Range(Keys(subscriptions))]_vars

\* h has been removed from a pattern that keeps its other handler
UnsubscribedOneOfTwo ==
    /\ op = "unsubscribe"
    /\ Len(subscriptions) = 2
    /\ Len(HandlersIn(subscriptions, arg.pattern)) = 1
    /\ arg.handler \notin Range(HandlersIn(subscriptions, arg.pattern))
    /\ sent = <<>>

(* ------------------------------------------------------------------------ *)
(* C9.  Registry invariant: between operations every pattern returned by    *)
(* getSubscriptions() has at least one registered handler.                  *)
(* ------------------------------------------------------------------------ *)
NoEmptyHandlerSet ==
    \A i \in 1..Len(GetSubscriptions) :
        Len(HandlersIn(subscriptions, GetSubscriptions[i])) >= 1

\* the last handler of a pattern has been removed while another pattern stays
LastHandlerRemoved ==
    /\ op = "unsubscribe"
    /\ Len(subscriptions) = 1
    /\ ~Has(subscriptions, arg.pattern)

(* ------------------------------------------------------------------------ *)
(* C10.  subscribe(p, h) for a pattern not yet registered: if the WebSocket *)
(* is open it sends one subscribe frame listing every registered pattern    *)
(* including p and does not add p to the pending set; if not it sends       *)
(* nothing and adds p to the pending set.  For a pattern already            *)
(* registered it sends nothing and leaves the pending set unchanged.        *)
(* ------------------------------------------------------------------------ *)
SubscribeSendsOrPends ==
    [][op' = "subscribe" =>
           LET p == arg'.pattern
           IN  IF Has(subscriptions, p)
               THEN sent' = <<>> /\ pendingPatterns' = pendingPatterns
               ELSE IF ws = "open"
               THEN /\ Len(sent') = 1
                    /\ sent'[1].type = "subscribe"
                    /\ Range(sent'[1].patterns) = Range(Keys(subscriptions)) \cup {p}
                    /\ Len(sent'[1].patterns) = Len(subscriptions) + 1
                    /\ pendingPatterns' = pendingPatterns
                    /\ p \notin Range(pendingPatterns')
               ELSE /\ sent' = <<>>
                    /\ Range(pendingPatterns') = Range(pendingPatterns) \cup {p}]_vars

\* a second pattern has been subscribed on an open WebSocket
SubscribedWhileOpen ==
    /\ op = "subscribe"
    /\ Len(sent) = 1
    /\ Len(sent[1].patterns) = 2

(* ------------------------------------------------------------------------ *)
(* C11.  When unsubscribe() removes the last handler of pattern p, p is     *)
(* deleted from the registry and from the pending set, and an unsubscribe   *)
(* frame naming exactly [p] is sent if and only if the WebSocket is open at *)
(* that moment; when other handlers of p remain, no frame is sent and the   *)
(* pending set is unchanged.                                                *)
(* ------------------------------------------------------------------------ *)
UnsubscribeFrameIffOpen ==
    [][op' = "unsubscribe" =>
           LET p == arg'.pattern
               h == arg'.handler
           IN  IF Range(HandlersIn(subscriptions, p)) = {h}
               THEN /\ ~Has(subscriptions', p)
                    /\ p \notin Range(pendingPatterns')
                    /\ Range(pendingPatterns') = Range(pendingPatterns) \ {p}
                    /\ sent' = (IF ws = "open"
                                THEN <<[type |-> "unsubscribe", patterns |-> <<p>>]>>
                                ELSE <<>>)
               ELSE /\ sent' = <<>>
                    /\ pendingPatterns' = pendingPatterns]_vars

\* the last handler of a pattern has been removed on an open WebSocket
UnsubscribeFrameSent ==
    /\ op = "unsubscribe"
    /\ ~Has(subscriptions, arg.pattern)
    /\ Len(sent) = 1
    /\ sent[1].type = "unsubscribe"
    /\ sent[1].patterns = <<arg.pattern>>

(* ------------------------------------------------------------------------ *)
(* C12.  When an unsubscribe() leaves the registry empty, by the time it    *)
(* returns the transport has been closed and released, the status is        *)
(* 'disconnected', and neither a reconnect timer nor a keep-alive timer     *)
(* remains pending, whatever state the client was in.                       *)
(* ------------------------------------------------------------------------ *)
LastUnsubscribeReleasesAll ==
    (op = "unsubscribe" /\ subscriptions = <<>>) =>
        /\ ws = "null"
        /\ eventSource = "null"
        /\ status = "disconnected"
        /\ reconnectTimeout # "pending"
        /\ orphanTimers = 0
        /\ pingInterval = "null"
        /\ orphanIntervals = 0

(* ------------------------------------------------------------------------ *)
(* C13.  A client with no subscribers stays idle: from the moment the last  *)
(* handler is removed until the next subscribe(), getStatus() remains       *)
(* 'disconnected' and onError is never invoked, whatever transport events   *)
(* arrive and whatever the attempt counter and the configured maximum are.  *)
(* ------------------------------------------------------------------------ *)
\* every handler that was subscribed has been removed
NoSubscribers == subscriptions = <<>> /\ handles # {}

IdleStaysQuiet == NoSubscribers => (status = "disconnected" /\ errors = <<>>)

(* ------------------------------------------------------------------------ *)
(* C14.  subscribe() starts a connection attempt (the status has left       *)
(* 'disconnected' by the time it returns) if and only if the status was     *)
(* 'disconnected' when it was called; called while 'connecting',            *)
(* 'connected' or 'error' it creates no transport and leaves the status     *)
(* unchanged.                                                               *)
(* ------------------------------------------------------------------------ *)
\* a transport was constructed, or its constructor was called and threw
AttemptStarted(cr, er) == cr # <<>> \/ "constructor" \in Range(er)

SubscribeConnectsIffDisconnected ==
    [][op' = "subscribe" =>
           IF status = "disconnected"
           THEN /\ status' # "disconnected"
                /\ AttemptStarted(created', errors')
           ELSE /\ ~AttemptStarted(created', errors')
                /\ status' = status
                /\ notified' = <<>>]_vars

\* subscribe() has returned on a client whose status is, and was, 'error'
SubscribedInError ==
    /\ op = "subscribe"
    /\ status = "error"
    /\ notified = <<>>
    /\ created = <<>>

(* ------------------------------------------------------------------------ *)
(* C15.  reconnect() closes any existing transport and cancels pending      *)
(* timers, sets the attempt counter to zero, and then starts a new          *)
(* connection attempt if and only if at least one pattern is registered,    *)
(* from every status, including 'error' after the maximum was reached;      *)
(* with an empty registry it leaves the client 'disconnected' with no       *)
(* transport.                                                               *)
(* ------------------------------------------------------------------------ *)
ReconnectRestarts ==
    [][op' = "reconnect" =>
           \* the timers that were pending are cancelled
           /\ orphanTimers' = 0
           /\ orphanIntervals' = 0
           /\ pingInterval' = "null"
           /\ reconnectTimeout' = "pending" => scheduled' # <<>>
           \* the counter restarts from zero
           /\ reconnectAttempts' = Len(scheduled')
           /\ IF subscriptions # <<>>
              THEN /\ AttemptStarted(created', errors')
                   /\ created' # <<>> =>
                          /\ status' = "connecting"
                          /\ (IF useSSE THEN eventSource' ELSE ws') = "connecting"
              ELSE /\ ~AttemptStarted(created', errors')
                   /\ status' = "disconnected"
                   /\ ws' = "null"
                   /\ eventSource' = "null"]_vars

(* ------------------------------------------------------------------------ *)
(* C16.  onStatusChange is invoked exactly when the status value changes:   *)
(* two consecutive invocations never carry the same value, every invocation *)
(* carries the value getStatus() returns at that moment, and setting the    *)
(* status to its current value invokes nothing.                             *)
(* ------------------------------------------------------------------------ *)
\* notified' lists the invocations of one handler in order: the first
\* differs from the status the handler started with, each differs from the
\* one before it, the last is the status the handler leaves
StatusChangeExactlyOnChange ==
    [][/\ notified' = <<>> => status' = status
       /\ notified' # <<>> =>
              /\ notified'[1] # status
              /\ notified'[Len(notified')] = status'
              /\ \A i \in 1..(Len(notified') - 1) : notified'[i] # notified'[i + 1]]_vars

\* ws.onclose has set the status to 'disconnected' on a client whose status
\* already was 'disconnected'
DisconnectedSetAgain ==
    /\ op = "closeEvent"
    /\ status = "disconnected"
    /\ notified = <<>>

(* ------------------------------------------------------------------------ *)
(* C17.  With a configured maximum N >= 1: the attempt counter never        *)
(* exceeds N, at most N reconnect timers are scheduled between two resets   *)
(* of the counter (successful open or reconnect()), and when a disconnect   *)
(* is handled with the counter already at N the status is set to 'error',   *)
(* onError is invoked with the 'Max reconnection attempts reached' error,   *)
(* and no timer is scheduled.                                               *)
(* ------------------------------------------------------------------------ *)
\* the counter a handler's scheduleReconnect() finds: zero after the reset
\* of onopen and of reconnect()
CounterFound == IF op' \in {"open", "reconnect"} THEN 0 ELSE reconnectAttempts

\* the handler that ran has handled a disconnect: a close event, an SSE
\* error, or a constructor that threw
DisconnectHandled ==
    \/ op' = "closeEvent"
    \/ op' = "error" /\ useSSE
    \/ "constructor" \in Range(errors')

\* every timer scheduled counts one on the counter, which is otherwise only
\* reset: N bounds the timers scheduled between two resets
CountsEveryTimer == reconnectAttempts' = CounterFound + Len(scheduled')

GivesUpAtMax ==
    (DisconnectHandled /\ CounterFound = maxReconnectAttempts) =>
        /\ status' = "error"
        /\ errors'[Len(errors')] = MaxReached
        /\ scheduled' = <<>>
        /\ reconnectTimeout' # "pending" \/ reconnectTimeout = "pending"
        /\ orphanTimers' <= orphanTimers

AttemptsBounded ==
    /\ [](reconnectAttempts <= maxReconnectAttempts)
    /\ [][CountsEveryTimer /\ GivesUpAtMax]_vars

\* a close event has been handled with the counter at the maximum
MaxErrorReported ==
    /\ op = "closeEvent"
    /\ reconnectAttempts = maxReconnectAttempts
    /\ status = "error"
    /\ errors = <<MaxReached>>

(* ------------------------------------------------------------------------ *)
(* C18.  After the max-attempts error has been reported, the client makes   *)
(* no further connection attempt by itself: no transport is created and no  *)
(* timer fires a connect until the caller next invokes a public operation   *)
(* (reconnect(), subscribe(), unsubscribe() or close()).                    *)
(* ------------------------------------------------------------------------ *)
\* the handler that has just run reported the max-attempts error
MaxErrorJustReported == MaxReached \in Range(errors)

\* the next thing to happen, if it is a timer and not a call of the caller,
\* creates no transport
NoAttemptAfterMaxError ==
    [][(MaxErrorJustReported /\ op' = "timer") => created' = <<>>]_vars

(* ------------------------------------------------------------------------ *)
(* C19.  The delay of the n-th consecutive scheduled reconnect (n = attempt *)
(* counter after its increment) is min(baseDelay * 1.5^(n-1), 30000) ms:    *)
(* with baseDelay 3000 the delays are 3000, 4500, 6750, 10125, ... and      *)
(* every delay from the point the formula exceeds 30000 is exactly 30000;   *)
(* the sequence of delays between two counter resets is non-decreasing.     *)
(* ------------------------------------------------------------------------ *)
\* baseDelay * 1.5^(n-1) and 30000, both in units of 1 / 2^(n-1) ms
Grown(b, n) == b * Pow(3, n - 1)
Cap(n) == 30000 * Pow(2, n - 1)

\* the first delays of the default base, in ms
FirstDelays == <<3000, 4500, 6750, 10125>>

BackoffDelays ==
    scheduled # <<>> =>
        LET n == reconnectAttempts
            b == reconnectDelay
            d == scheduled[1]
        IN  /\ Len(scheduled) = 1
            /\ n >= 1
            /\ d.den = Pow(2, n - 1)
            /\ Grown(b, n) <= Cap(n) => d.num = Grown(b, n)
            /\ Grown(b, n) > Cap(n) => d.num = Cap(n)
            /\ (b = 3000 /\ n <= 4) => d.num = FirstDelays[n] * d.den
            \* not shorter than the delay scheduled before it, which was
            \* min(Grown(b, n-1), Cap(n-1)) in units of 1 / 2^(n-2) ms
            /\ n > 1 =>
                   2 * (IF Grown(b, n - 1) <= Cap(n - 1)
                        THEN Grown(b, n - 1) ELSE Cap(n - 1)) <= d.num

\* the seventh consecutive reconnect of the default base is scheduled at the cap
DelayCapped ==
    /\ scheduled # <<>>
    /\ reconnectDelay = 3000
    /\ reconnectAttempts = 7
    /\ scheduled[1].num = 30000 * 64
    /\ scheduled[1].den = 64

(* ------------------------------------------------------------------------ *)
(* C20.  In WebSocket mode a parsed frame whose type is 'connected',        *)
(* 'subscribed', 'unsubscribed' or 'pong' invokes no handler (even when '*' *)
(* is subscribed), and every other parseable JSON frame is treated as an    *)
(* event message and dispatched to the handlers whose patterns match it.    *)
(* ------------------------------------------------------------------------ *)
\* the event type of an event message: its event_type if present, otherwise
\* the segment after the last ':' of its channel, the empty string if
\* neither is available
DerivedEventType(frame) ==
    IF ~Falsy(frame.event_type) THEN frame.event_type
    ELSE IF frame.channel # Absent THEN LastSegment(frame.channel)
    ELSE <<>>

\* the handlers of the patterns that match event type T, as <<pattern, handler>>
Receivers(T) ==
    UNION {{<<subscriptions[i].pattern, subscriptions[i].handlers[k]>> :
                k \in 1..Len(subscriptions[i].handlers)} :
           i \in {j \in 1..Len(subscriptions) :
                      MatchRule(T, subscriptions[j].pattern)}}

ControlConsumedElseDispatched ==
    (~useSSE /\ op = "message" /\ arg.frame.kind = "json") =>
        IF arg.frame.type \in {"connected", "subscribed", "unsubscribed", "pong"}
        THEN invoked = <<>>
        ELSE {<<invoked[i].pattern, invoked[i].handler>> : i \in 1..Len(invoked)}
                 = Receivers(DerivedEventType(arg.frame))

(* ------------------------------------------------------------------------ *)
(* C21.  An inbound frame that fails to parse invokes no handler, does not  *)
(* invoke onError, changes neither status, registry nor timers, and does    *)
(* not prevent later frames on the same connection from being dispatched    *)
(* (both transports).                                                       *)
(* ------------------------------------------------------------------------ *)
\* the frame just handled carries an event type
TypedEvent(frame) ==
    /\ frame.kind = "json"
    /\ frame.type \notin ControlTypes
    /\ ~Falsy(frame.event_type)

ParseFailureIgnored ==
    [][/\ (op' = "message" /\ arg'.frame.kind = "garbage") =>
              /\ invoked' = <<>>
              /\ errors' = <<>>
              /\ notified' = <<>>
              /\ sent' = <<>>
              /\ created' = <<>>
              /\ UNCHANGED <<clientVars, hostVars>>
       \* the frame that follows an unparseable one reaches its handlers
       /\ (op = "message" /\ arg.frame.kind = "garbage"
             /\ op' = "message" /\ TypedEvent(arg'.frame)) =>
              /\ (IF useSSE THEN eventSource ELSE ws) = "open"
              /\ {<<invoked'[i].pattern, invoked'[i].handler>> : i \in 1..Len(invoked')}
                     = Receivers(arg'.frame.event_type)]_vars

\* an unparseable frame has arrived on a connection with a subscriber of '*'
GarbageArrived ==
    /\ op = "message"
    /\ arg.frame.kind = "garbage"
    /\ Has(subscriptions, Star)
    /\ status = "connected"

(* ------------------------------------------------------------------------ *)
(* C22.  If creating the transport throws (WebSocket or EventSource         *)
(* constructor), the exception does not escape subscribe(), reconnect() or  *)
(* the timer callback: the status becomes 'error', onError is invoked once  *)
(* with the error, and a reconnect is scheduled under the same policy       *)
(* (idle check, counter increment, backoff, maximum) as for a runtime       *)
(* close.                                                                   *)
(* ------------------------------------------------------------------------ *)
\* what scheduleReconnect() does on a client whose counter is n: give up at
\* the maximum, do nothing when idle, else count and schedule one timer
FollowsPolicy(n, reported) ==
    IF n >= maxReconnectAttempts
    THEN /\ errors' = reported \o <<MaxReached>>
         /\ status' = "error"
         /\ scheduled' = <<>>
         /\ reconnectAttempts' = n
    ELSE IF subscriptions' = <<>> /\ pendingPatterns' = <<>>
    THEN /\ errors' = reported
         /\ scheduled' = <<>>
         /\ reconnectAttempts' = n
    ELSE /\ errors' = reported
         /\ Len(scheduled') = 1
         /\ scheduled'[1].den = Pow(2, n)
         /\ scheduled'[1].num = Min(Grown(reconnectDelay, n + 1), Cap(n + 1))
         /\ reconnectAttempts' = n + 1
         /\ reconnectTimeout' = "pending"

ConstructorFailureHandled ==
    [][/\ ("constructor" \in Range(errors')) =>
              /\ op' \in {"subscribe", "reconnect", "timer"}
              /\ status' = "error"
              /\ created' = <<>>
              /\ FollowsPolicy(CounterFound, <<"constructor">>)
       \* the policy a runtime close is handled under
       /\ op' = "closeEvent" => FollowsPolicy(CounterFound, <<>>)]_vars

\* the constructor threw in the timer callback and the next timer is scheduled
ConstructorThrewInTimer ==
    /\ op = "timer"
    /\ errors = <<"constructor">>
    /\ status = "error"
    /\ scheduled # <<>>

(* ------------------------------------------------------------------------ *)
(* C23.  In SSE mode, subscribe() and unsubscribe() performed after the     *)
(* stream is connected send nothing to the server and neither close nor     *)
(* reopen the stream (unless the registry becomes empty): a pattern added   *)
(* after connect reaches the server only in the URL of the next connection  *)
(* attempt.                                                                 *)
(* ------------------------------------------------------------------------ *)
SseConnected == useSSE /\ eventSource = "open" /\ status = "connected"

SseChangesStayLocal ==
    /\ [](useSSE => sent = <<>>)
    /\ [][/\ (SseConnected /\ op' \in {"subscribe", "unsubscribe"}) =>
                 /\ sent' = <<>>
                 /\ created' = <<>>
                 /\ subscriptions' # <<>> =>
                        (eventSource' = eventSource /\ status' = status)
          \* the URL of every connection attempt names the registered patterns
          /\ (useSSE /\ created' # <<>>) =>
                 /\ Len(created') = 1
                 /\ Range(created'[1]) =
                        (IF subscriptions' = <<>> THEN {<<"*">>}
                         ELSE Range(Keys(subscriptions')))]_vars

\* a second pattern has been subscribed on a connected event stream
SubscribedOnOpenStream ==
    /\ SseConnected
    /\ op = "subscribe"
    /\ Len(subscriptions) = 2
    /\ created = <<>>
    /\ sent = <<>>

(* ------------------------------------------------------------------------ *)
(* C24.  close() is idempotent: calling close() twice in succession leaves  *)
(* exactly the state that one call leaves, and calling it on a client that  *)
(* is already 'disconnected' with no timers and no transport changes no     *)
(* state, sends nothing and invokes no callback.                            *)
(* ------------------------------------------------------------------------ *)
\* 'disconnected' with no timer pending or running and no transport
Quiescent ==
    /\ status = "disconnected"
    /\ reconnectTimeout # "pending"
    /\ pingInterval = "null"
    /\ ws = "null"
    /\ eventSource = "null"

NothingObserved ==
    /\ sent' = <<>>
    /\ notified' = <<>>
    /\ errors' = <<>>
    /\ invoked' = <<>>
    /\ created' = <<>>
    /\ scheduled' = <<>>

CloseIdempotent ==
    [][/\ (op = "close" /\ op' = "close") =>
              (NothingObserved /\ UNCHANGED <<clientVars, hostVars>>)
       /\ (Quiescent /\ op' = "close") =>
              /\ NothingObserved
              /\ Quiescent'
              /\ UNCHANGED <<subscriptions, pendingPatterns, reconnectAttempts, hostVars>>]_vars

\* close() has returned on a client that was already 'disconnected' and
\* still has its subscriptions
ClosedWhileDisconnected ==
    /\ op = "close"
    /\ notified = <<>>
    /\ Quiescent
    /\ subscriptions # <<>>

(* ------------------------------------------------------------------------ *)
(* C25.  Registering the same handler function a second time under the same *)
(* pattern is a no-op: the registry, the pending set and the frames sent    *)
(* are as after the first call, the handler is invoked once per matching    *)
(* event, and no error is raised.                                           *)
(* ------------------------------------------------------------------------ *)
\* no <<pattern, handler>> pair occurs twice among the invocations of a dispatch
InvokedOncePerPair ==
    \A i, j \in 1..Len(invoked) :
        (invoked[i].pattern = invoked[j].pattern
             /\ invoked[i].handler = invoked[j].handler) => i = j

DuplicateSubscribeIsNoOp ==
    /\ []InvokedOncePerPair
    /\ [][(op' = "subscribe"
             /\ arg'.handler \in Range(HandlersIn(subscriptions, arg'.pattern))) =>
              /\ subscriptions' = subscriptions
              /\ pendingPatterns' = pendingPatterns
              /\ sent' = <<>>
              /\ errors' = <<>>]_vars

\* subscribe(p, h) has returned on an open socket with <<p, <<h>>>> as the
\* whole registry: h was registered under p before the call (a first
\* registration into an empty registry finds no open socket)
SubscribedTwice ==
    /\ op = "subscribe"
    /\ ws = "open"
    /\ subscriptions = <<[pattern |-> arg.pattern, handlers |-> <<arg.handler>>]>>
    /\ sent = <<>>

(* ------------------------------------------------------------------------ *)
(* C26.  End-to-end scenario on a fresh WebSocket client with default       *)
(* options: subscribe('counter.*', h) moves the status disconnected ->      *)
(* connecting; the transport opening moves it to connected, sends exactly   *)
(* one subscribe frame listing ['counter.*'] and starts the keep-alive; an  *)
(* inbound frame with event_type 'counter.updated' invokes h exactly once   *)
(* with that message; the transport closing moves the status to             *)
(* disconnected and schedules one reconnect after 3000 ms; close() before   *)
(* the timer fires cancels it, after which the status stays disconnected    *)
(* and no transport is created.                                             *)
(* ------------------------------------------------------------------------ *)
\* 'counter.*' and 'counter.updated' are the pattern a.* and the type a.b
ScenarioPattern == <<"a", ".", "*">>
ScenarioType == <<"a", ".", "b">>
ScenarioRegistry == <<[pattern |-> ScenarioPattern, handlers |-> <<"h1">>]>>

\* no socket, timeout or interval other than the ones the client holds
NothingStray ==
    /\ orphans = [rs \in OrphanStates |-> 0]
    /\ orphanTimers = 0
    /\ orphanIntervals = 0
    /\ eventSource = "null"

DefaultWebSocketClient ==
    ~useSSE /\ maxReconnectAttempts = Infinity /\ reconnectDelay = 3000

\* the stages of the scenario: every field of the client and of the host
ScenarioFresh ==
    /\ DefaultWebSocketClient /\ NothingStray
    /\ status = "disconnected" /\ subscriptions = <<>> /\ pendingPatterns = <<>>
    /\ reconnectAttempts = 0 /\ reconnectTimeout = "null"
    /\ pingInterval = "null" /\ ws = "null"

ScenarioConnecting ==
    /\ DefaultWebSocketClient /\ NothingStray
    /\ status = "connecting" /\ subscriptions = ScenarioRegistry
    /\ pendingPatterns = <<ScenarioPattern>>
    /\ reconnectAttempts = 0 /\ reconnectTimeout = "null"
    /\ pingInterval = "null" /\ ws = "connecting"

ScenarioConnected ==
    /\ DefaultWebSocketClient /\ NothingStray
    /\ status = "connected" /\ subscriptions = ScenarioRegistry
    /\ pendingPatterns = <<>>
    /\ reconnectAttempts = 0 /\ reconnectTimeout = "null"
    /\ pingInterval = "running" /\ ws = "open"

ScenarioWaiting ==
    /\ DefaultWebSocketClient /\ NothingStray
    /\ status = "disconnected" /\ subscriptions = ScenarioRegistry
    /\ pendingPatterns = <<>>
    /\ reconnectAttempts = 1 /\ reconnectTimeout = "pending"
    /\ pingInterval = "null" /\ ws = "closed"

ScenarioClosed ==
    /\ DefaultWebSocketClient /\ NothingStray
    /\ status = "disconnected" /\ subscriptions = ScenarioRegistry
    /\ pendingPatterns = <<>>
    /\ reconnectAttempts = 1 /\ reconnectTimeout = "null"
    /\ pingInterval = "null" /\ ws = "null"

\* closed, nothing pending anywhere
Dormant == Quiescent /\ NothingStray

ScenarioStep ==
    /\ (ScenarioFresh /\ op' = "subscribe" /\ arg'.pattern = ScenarioPattern
          /\ created' # <<>>) =>
           /\ ScenarioConnecting'
           /\ notified' = <<"connecting">>
           /\ created' = <<<<ScenarioPattern>>>>
           /\ sent' = <<>>
    /\ (ScenarioConnecting /\ op' = "open") =>
           /\ ScenarioConnected'
           /\ notified' = <<"connected">>
           /\ sent' = <<[type |-> "subscribe", patterns |-> <<ScenarioPattern>>]>>
    /\ (ScenarioConnected /\ op' = "message"
          /\ arg'.frame.kind = "json" /\ arg'.frame.event_type = ScenarioType) =>
           /\ ScenarioConnected'
           /\ invoked' = <<[pattern |-> ScenarioPattern, handler |-> "h1", threw |-> FALSE]>>
           /\ notified' = <<>> /\ errors' = <<>>
    /\ (ScenarioConnected /\ op' = "closeEvent") =>
           /\ ScenarioWaiting'
           /\ notified' = <<"disconnected">>
           /\ scheduled' = <<[num |-> 3000, den |-> 1]>>
           /\ created' = <<>>
    /\ (ScenarioWaiting /\ op' = "close") =>
           /\ ScenarioClosed'
           /\ notified' = <<>>
           /\ created' = <<>>
    \* closed: nothing happens until the caller acts, and only subscribe()
    \* or reconnect() end the rest
    /\ (Dormant /\ closedSince) =>
           /\ op' \in {"subscribe", "unsubscribe", "reconnect", "close"}
           /\ op' \in {"unsubscribe", "close"} =>
                  (Dormant' /\ closedSince' /\ created' = <<>> /\ notified' = <<>>)

ScenarioHolds == [][ScenarioStep]_vars

\* the scenario has run to its end: closed while waiting to reconnect
ScenarioCompleted ==
    /\ ScenarioClosed
    /\ op = "close"
    /\ closedSince

(* ------------------------------------------------------------------------ *)
(* C27.  When a WebSocket connection opens, the status becomes 'connected', *)
(* the attempt counter becomes 0, the pending set becomes empty, a          *)
(* keep-alive timer is started, and (when any pattern is active) exactly    *)
(* one subscribe frame is sent whose pattern list equals the union of the   *)
(* registry keys and the pending set at that moment.                        *)
(* ------------------------------------------------------------------------ *)
\* the patterns active when the callback starts
ActivePatterns == Range(Keys(subscriptions)) \cup Range(pendingPatterns)

OpenEffects ==
    /\ status' = "connected"
    /\ reconnectAttempts' = 0
    /\ pendingPatterns' = <<>>
    /\ pingInterval' = "running"
    /\ IF ActivePatterns = {} THEN sent' = <<>>
       ELSE /\ Len(sent') = 1
            /\ sent'[1].type = "subscribe"
            /\ Range(sent'[1].patterns) = ActivePatterns
            /\ Len(sent'[1].patterns) = Cardinality(ActivePatterns)

WsOpenFlushes == [][(op' = "open" /\ ~useSSE) => OpenEffects]_vars

\* the same for the open event of the socket the client holds
HeldWsOpenFlushes == [][(op' = "open" /\ ~useSSE /\ arg'.current) => OpenEffects]_vars

\* a pattern was added while the socket was connecting, and is flushed
OpenedWithLatePattern ==
    /\ op = "open" /\ ~useSSE /\ arg.current
    /\ Len(sent) = 1
    /\ Len(sent[1].patterns) = 2

(* ------------------------------------------------------------------------ *)
(* C28.  For both transports, once the connection has opened the pending    *)
(* set is empty: a pattern stays in the pending set only while no           *)
(* connection has opened since it was subscribed.                           *)
(* ------------------------------------------------------------------------ *)
PendingEmptyOnceOpened == op = "open" => pendingPatterns = <<>>

\* the same for the WebSocket the client holds
PendingEmptyOnceHeldWsOpened ==
    (op = "open" /\ ~useSSE /\ arg.current) => pendingPatterns = <<>>

(* ------------------------------------------------------------------------ *)
(* C29.  A WebSocket error event sets the status to 'error' and invokes     *)
(* onError once but schedules no reconnect timer and does not change the    *)
(* attempt counter (only the following close event schedules); an SSE error *)
(* event sets the status to 'error', invokes onError, closes and releases   *)
(* the event stream, and itself schedules the reconnect.                    *)
(* ------------------------------------------------------------------------ *)
WsErrorOnlyReports ==
    /\ status' = "error"
    /\ errors' = <<"WebSocket connection error">>
    /\ scheduled' = <<>>
    /\ created' = <<>>
    /\ reconnectAttempts' = reconnectAttempts
    /\ reconnectTimeout' = reconnectTimeout
    /\ orphanTimers' = orphanTimers

\* the stream that raised the event is closed: the one the client holds, or
\* one it no longer refers to
ErroredStreamClosed ==
    IF arg'.current THEN OrphanCount(orphans') = OrphanCount(orphans)
    ELSE OrphanCount(orphans') < OrphanCount(orphans)

SseErrorReleases ==
    /\ status' = "error"
    /\ eventSource' = "null"
    /\ created' = <<>>
    /\ FollowsPolicy(reconnectAttempts, <<"SSE connection error">>)

ErrorEventHandling ==
    [][/\ (op' = "error" /\ ~useSSE) => WsErrorOnlyReports
       /\ (op' = "error" /\ useSSE) => (SseErrorReleases /\ ErroredStreamClosed)]_vars

\* an event stream failed and its reconnect is scheduled
SseErrorScheduled ==
    /\ op = "error" /\ useSSE /\ arg.current
    /\ Len(scheduled) = 1
    /\ eventSource = "null"

(* ------------------------------------------------------------------------ *)
(* C30.  Whenever a disconnect is handled (WebSocket close event, SSE       *)
(* error, or transport construction failure) while the registry and the     *)
(* pending set are both empty, no reconnect timer is scheduled and the      *)
(* attempt counter is not incremented.                                      *)
(* ------------------------------------------------------------------------ *)
\* the registry and the pending set as scheduleReconnect() finds them
NothingToResubscribe == subscriptions' = <<>> /\ pendingPatterns' = <<>>

IdleDisconnectSchedulesNothing ==
    [][(DisconnectHandled /\ NothingToResubscribe) =>
           /\ scheduled' = <<>>
           /\ reconnectAttempts' = CounterFound
           /\ reconnectTimeout' # "pending" \/ reconnectTimeout = "pending"
           /\ orphanTimers' <= orphanTimers]_vars

\* a socket closed on an idle client that had attempts left
IdleDisconnectHandled ==
    /\ op = "closeEvent"
    /\ subscriptions = <<>> /\ pendingPatterns = <<>>
    /\ reconnectAttempts < maxReconnectAttempts
    /\ scheduled = <<>>
    /\ status = "disconnected"

(* ------------------------------------------------------------------------ *)
(* C31.  In every reachable state the two timers are mutually exclusive in  *)
(* effect: a keep-alive timer is active only while the status is            *)
(* 'connected', and a reconnect timer is pending only while the status is   *)
(* not 'connected'.                                                         *)
(* ------------------------------------------------------------------------ *)
KeepAliveOnlyWhileConnected == pingInterval = "running" => status = "connected"

ReconnectTimerOnlyWhileNotConnected ==
    reconnectTimeout = "pending" => status # "connected"

TimersExclusive ==
    KeepAliveOnlyWhileConnected /\ ReconnectTimerOnlyWhileNotConnected

(* ------------------------------------------------------------------------ *)
(* C32.  The event type used for matching is the frame's event_type when    *)
(* present, otherwise the segment after the last ':' of its channel,        *)
(* otherwise the empty string; so a parsed event frame that has neither     *)
(* event_type nor channel is dispatched with event type '' and is delivered *)
(* to exactly the handlers of patterns that match '' (e.g. '*').            *)
(* ------------------------------------------------------------------------ *)
\* the <<pattern, handler>> pairs the handled frame was delivered to
Delivered == {<<invoked[i].pattern, invoked[i].handler>> : i \in 1..Len(invoked)}

EventFrameHandled == op = "message" /\ arg.frame \in EventFrames

EventTypeDerived ==
    EventFrameHandled => Delivered = Receivers(DerivedEventType(arg.frame))

\* the same for the frames that carry an event_type or a channel
KeyedEventTypeDerived ==
    (EventFrameHandled /\ ~EventTypeThrows(arg.frame)) =>
        Delivered = Receivers(DerivedEventType(arg.frame))

(* ------------------------------------------------------------------------ *)
(* C33.  Events of a discarded socket are inert: once the client has        *)
(* released a WebSocket (close() set the handle to null, or a newer socket  *)
(* replaced it), that socket's later open, message, close and error events  *)
(* change neither the status, the attempt counter, the pending set nor any  *)
(* timer, schedule no reconnect, and invoke no handler.                     *)
(* ------------------------------------------------------------------------ *)
\* the event handled is one of a WebSocket the client no longer refers to
DiscardedSocketEvent ==
    /\ ~useSSE
    /\ op' \in {"open", "message", "closeEvent", "error"}
    /\ ~arg'.current

ClientUntouched ==
    /\ status' = status
    /\ reconnectAttempts' = reconnectAttempts
    /\ pendingPatterns' = pendingPatterns
    /\ reconnectTimeout' = reconnectTimeout
    /\ pingInterval' = pingInterval
    /\ orphanTimers' = orphanTimers
    /\ orphanIntervals' = orphanIntervals
    /\ scheduled' = <<>>
    /\ invoked' = <<>>
    /\ notified' = <<>>
    /\ errors' = <<>>

DiscardedSocketInert == [][DiscardedSocketEvent => ClientUntouched]_vars

(* ------------------------------------------------------------------------ *)
(* C34.  No timer is orphaned: at any time at most one reconnect timer is   *)
(* pending and at most one keep-alive interval is running, and each is the  *)
(* one stored in reconnectTimeout / pingInterval, so that close() cancels   *)
(* every timer the client has created.                                      *)
(* ------------------------------------------------------------------------ *)
\* every pending timeout is the one this.reconnectTimeout holds
NoReconnectTimerOrphaned == orphanTimers = 0
\* every running interval is the one this.pingInterval holds
NoKeepAliveOrphaned == orphanIntervals = 0

NoTimerOrphaned == NoReconnectTimerOrphaned /\ NoKeepAliveOrphaned

\* close() leaves no timer behind
CloseCancelsEveryTimer ==
    op = "close" => (reconnectTimeout # "pending" /\ pingInterval = "null"
                       /\ orphanTimers = 0 /\ orphanIntervals = 0)

(* ------------------------------------------------------------------------ *)
(* C35.  A connection attempt is never started while the registry is empty: *)
(* whenever connect() creates a transport (from subscribe(), reconnect() or *)
(* a reconnect timer), at least one pattern is registered, so the '*'       *)
(* fallback of the connect URL is never used.                               *)
(* ------------------------------------------------------------------------ *)
NeverConnectsIdle == [][created' # <<>> => subscriptions' # <<>>]_vars

\* the same for every transport not created by a timeout the client had lost
HeldTimerNeverConnectsIdle ==
    [][(created' # <<>> /\ ~(op' = "timer" /\ ~arg'.current)) =>
           subscriptions' # <<>>]_vars

(* ------------------------------------------------------------------------ *)
(* C36.  In WebSocket mode, whenever the client's current socket is open    *)
(* and its open handler has run, every pattern in the registry has been     *)
(* announced to the server on that socket - in the connect URL or in a      *)
(* subscribe frame sent after the pattern's latest registration - and has   *)
(* not been retracted by a later unsubscribe frame.                         *)
(* ------------------------------------------------------------------------ *)
\* the open event of a socket runs its handler in the same step
CurrentSocketOpened == ~useSSE /\ ws = "open"

RegistryAnnounced ==
    CurrentSocketOpened => Range(Keys(subscriptions)) \subseteq announced

\* a pattern subscribed while the socket was connecting, now announced
LatePatternAnnounced ==
    /\ CurrentSocketOpened
    /\ op = "open" /\ arg.current
    /\ Len(subscriptions) = 2
    /\ Len(sent) = 1
    /\ announced = Range(Keys(subscriptions))

(* ------------------------------------------------------------------------ *)
(* C37.  In WebSocket mode the server is not left subscribed to dropped     *)
(* patterns: every pattern announced on the current socket (connect URL or  *)
(* subscribe frame) that is no longer in the registry has been retracted by *)
(* an unsubscribe frame on that socket - including patterns unsubscribed    *)
(* between connect() and the open event.                                    *)
(* ------------------------------------------------------------------------ *)
NoDroppedPatternAnnounced ==
    CurrentSocketOpened => announced \subseteq Range(Keys(subscriptions))

\* the same for the patterns dropped while the socket is open
DroppedWhileOpenRetracted ==
    [][(~useSSE /\ ws = "open" /\ ws' = "open" /\ created' = <<>>) =>
           (announced' \ Range(Keys(subscriptions')))
               \subseteq (announced \ Range(Keys(subscriptions)))]_vars

(* ------------------------------------------------------------------------ *)
(* C38.  In every reachable state every pattern in the pending set is also  *)
(* a registry key, so the set of active patterns (registry keys united with *)
(* pending) always equals getSubscriptions().                               *)
(* ------------------------------------------------------------------------ *)
PendingWithinRegistry ==
    /\ Range(pendingPatterns) \subseteq Range(Keys(subscriptions))
    /\ GetAllPatterns(Begin) = GetSubscriptions

\* two patterns registered, both still pending
TwoPatternsPending ==
    /\ Len(pendingPatterns) = 2
    /\ Len(subscriptions) = 2
    /\ op = "subscribe"

(* ------------------------------------------------------------------------ *)
(* C39.  A handle's unsubscribe() is idempotent: a second call on the same  *)
(* handle, with no subscribe() in between, changes neither the registry,    *)
(* the pending set, the status nor any timer, and sends no frame.           *)
(* ------------------------------------------------------------------------ *)
\* the step is a call of unsubscribe() on a handle already unsubscribed
\* since the last subscribe()
SecondUnsubscribe ==
    /\ op' = "unsubscribe"
    /\ <<arg'.pattern, arg'.handler>> \in spent

NothingChangedBySecondCall ==
    /\ subscriptions' = subscriptions
    /\ pendingPatterns' = pendingPatterns
    /\ status' = status
    /\ reconnectTimeout' = reconnectTimeout
    /\ pingInterval' = pingInterval
    /\ orphanTimers' = orphanTimers
    /\ orphanIntervals' = orphanIntervals
    /\ sent' = <<>>

UnsubscribeIdempotent == [][SecondUnsubscribe => NothingChangedBySecondCall]_vars

\* the same for a second call that directly follows the first
ImmediateSecondUnsubscribe ==
    [][(SecondUnsubscribe /\ op = "unsubscribe" /\ arg' = arg) =>
           NothingChangedBySecondCall]_vars

(* ------------------------------------------------------------------------ *)
(* C40.  Constructor options are honoured as given: for every numeric       *)
(* reconnectDelayMs >= 0 and maxReconnectAttempts >= 0 supplied by the      *)
(* caller the client uses exactly that value (in particular                 *)
(* maxReconnectAttempts = 0 means no reconnect is ever scheduled), and the  *)
(* defaults 3000 ms / unbounded apply only when the option is omitted.      *)
(* ------------------------------------------------------------------------ *)
\* the value the client is to use for an option: as given, else the default
AsGiven(o, d) == IF o = <<>> THEN d ELSE o[1]

OptionsHonoured ==
    /\ reconnectDelay = AsGiven(options.reconnectDelayMs, DefaultDelay)
    /\ maxReconnectAttempts = AsGiven(options.maxReconnectAttempts, Infinity)
    /\ options.maxReconnectAttempts = <<0>> => scheduled = <<>>

\* the same for the options that are omitted or given a non-zero value
NonZeroOptionsHonoured ==
    /\ options.reconnectDelayMs # <<0>> =>
           reconnectDelay = AsGiven(options.reconnectDelayMs, DefaultDelay)
    /\ options.maxReconnectAttempts # <<0>> =>
           maxReconnectAttempts = AsGiven(options.maxReconnectAttempts, Infinity)

\* with maxReconnectAttempts: 0 no reconnect is scheduled
ZeroMaxNeverSchedules ==
    options.maxReconnectAttempts = <<0>> => scheduled = <<>>

====
